---- MODULE Spec2Model ----
(***************************************************************************)
(* State-machine model of the SmartGlasses frontend pipeline:              *)
(*   useCamera     (frontend/src/hooks/useCamera.js)                       *)
(*   useDetection  (frontend/src/hooks/useDetection.js, WebSocket version) *)
(*   CameraFeed    (refactored version, unnamed/part_000 lines 726-843)    *)
(*   VideoDisplay / CameraControls (frontend/README.md, unnamed/part_001)  *)
(*                                                                         *)
(* The program is single-threaded: every handler (timer callback, socket  *)
(* event, promise continuation, click handler, React commit) runs to      *)
(* completion, so each is one atomic action.  React state (useState) is    *)
(* a variable; the values a callback closed over are kept in `rendered`    *)
(* (the state as of the last commit), refreshed by the Render action.      *)
(* Wall-clock time is abstracted: a pending timer may fire at any later    *)
(* step; the delay it was armed with is kept in the timer record.          *)
(***************************************************************************)
EXTENDS Integers, Sequences, FiniteSets, TLC

(* ------------------------------ bounds -------------------------------- *)
MaxSockets == 7       \* WebSocket objects constructed over one run
MaxLive    == 3       \* sockets that are not yet CLOSED at the same time
MaxOpens   == 1       \* successful handshakes over one run
MaxFlakyOpens == 2    \* successful handshakes of the endpoint that comes and goes
MaxFrames  == 3       \* frames sent over one run
MaxNoise   == 1       \* inbound messages that answer no frame, over one run
MaxStreams == 3       \* getUserMedia calls over one run

(* ------------------------- program constants -------------------------- *)
MaxNow == 3           \* milliseconds the clock runs over
BatchLen == 60        \* entries in each array of a large result message
maxReconnectAttempts == 5
reconnectDelay       == 3000
MAX_DETECTIONS       == 50
MAX_OCR_DETECTIONS   == 50
MAX_LOGS             == 100
CAMERA_RETRY_DELAY   == 1000

Null == 0                           \* a ref holding null / no object
NoError == "null"                   \* useState(null) for `error`
DeviceIds == {1, 2}                 \* the video input devices of the machine
NoDevice == 0                       \* selectedDeviceId === ''

VARIABLES
  \* ---- useDetection ----
  sockets,                \* every WebSocket constructed so far (index = identity)
  wsRef,                  \* wsRef.current: index into sockets, or Null
  isConnected,            \* useState
  isProcessingRef,        \* isProcessingRef.current (isProcessing mirrors it)
  reconnectAttemptsRef,   \* reconnectAttemptsRef.current
  reconnectTimeoutRef,    \* reconnectTimeoutRef.current: a timer id, or Null
  timers,                 \* pending reconnect timeouts: records [id, delay]
  detectionIntervalRef,   \* the interval the ref holds (its period), or Null
  requestInterval,        \* CameraFeed's requestInterval state
  intervals,              \* the browser's live intervals: how many per period
  backendLogs, detections, ocrTextDetections,
  currentFrameDetections, currentFrameOcrDetections,
  \* ---- useCamera ----
  devices, selectedDeviceId, isStreaming, error,
  cameraStoppedRef, streamRef,
  video,                  \* the <video> element behind videoRef.current
  streams,                \* every getUserMedia call so far (index = identity)
  autoStream,             \* `stream` of the current auto-start effect instance
  camTimers,              \* pending camera recovery timeouts
  \* ---- React ----
  rendered,               \* state values as of the last commit (closures, UI)
  mounted,
  \* ---- observation (not program state) ----
  inFlight,               \* frames sent and not yet answered by result/error
  framesSent, opens, noise,
  abnormalCloses,         \* close events with a code other than 1000 since
                          \* the last open event
  tickDropped,            \* a tick has found the channel not open
  inserted,               \* what has been put into each history since it
                          \* was last cleared, oldest first
  \* ---- what the user sees, and the clock ----
  now,                    \* Date.now(), in ms
  unifiedEvents,          \* DetectionTerminal's merged event list
  flipImage,              \* CameraFeed's flipImage state
  display,                \* the video element's bounding rect
  overlay,                \* what the overlay canvas shows
  drawBoxes,              \* the inputs the registered drawBoxes closes over
  \* ---- observation of the frames (not program state) ----
  frameFlip,              \* whether the frame encoded last was flipped
  sourceFlip              \* whether the frame whose result was handled last
                          \* was flipped

detVars  == <<sockets, wsRef, isConnected, isProcessingRef, reconnectAttemptsRef,
              reconnectTimeoutRef, timers, detectionIntervalRef,
              requestInterval, intervals>>
histVars == <<backendLogs, detections, ocrTextDetections,
              currentFrameDetections, currentFrameOcrDetections>>
camVars  == <<devices, selectedDeviceId, isStreaming, error, cameraStoppedRef,
              streamRef, video, streams, autoStream, camTimers>>
obsVars  == <<inFlight, framesSent, opens, noise, abnormalCloses, tickDropped,
              inserted>>
overlayVars == <<flipImage, display, overlay, drawBoxes>>
encVars  == <<frameFlip, sourceFlip>>
viewVars == <<now, unifiedEvents, overlayVars, encVars>>
vars     == <<detVars, histVars, camVars, rendered, mounted, obsVars, viewVars>>

(* ------------------------------ helpers ------------------------------- *)

\* A truncation that keeps the first n elements.
SliceHead(seq, n) == IF Len(seq) <= n THEN seq ELSE SubSeq(seq, 1, n)

\* Array.prototype.slice(-n) for n > 0: the last n elements.
Slice(seq, n) ==
  IF Len(seq) <= n THEN seq ELSE SubSeq(seq, Len(seq) - n + 1, Len(seq))

\* [...prev, ...entries].slice(-cap)
AppendCapped(prev, entries, cap) == Slice(prev \o entries, cap)

\* A log entry {text, timestamp: Date.now()}; n carries the number
\* interpolated in the text.
LogEntry(text, n) == [text |-> text, n |-> n, timestamp |-> now]

\* {...entry, timestamp: t}
Stamp(entry, t) ==
  [f \in DOMAIN entry \cup {"timestamp"} |->
     IF f = "timestamp" THEN t ELSE entry[f]]

\* entries.map(e => ({...e, timestamp: arrivalTime})), arrivalTime = Date.now()
WithTimestamp(entries) == [i \in 1..Len(entries) |-> Stamp(entries[i], now)]

\* n arrivals of one kind, for the record of arrival order.
Arrivals(kind, n) == [i \in 1..n |-> kind]

LogConnected   == LogEntry("[INFO] WebSocket connected", 0)
LogWsError     == LogEntry("[ERROR] WebSocket connection error", 0)
LogReconnect(n) == LogEntry("[INFO] Attempting to reconnect", n)
LogMaxAttempts == LogEntry("[ERROR] Max reconnection attempts reached. Please refresh the page.", 0)
LogServiceError == LogEntry("[ERROR] message.message", 0)

AppendLogs(prev, entries) == AppendCapped(prev, entries, MAX_LOGS)

(* ----------------------------- WebSocket ------------------------------ *)

NewSocket == [readyState |-> "CONNECTING", code |-> 0, frames |-> 0, inbox |-> <<>>]

Live == {i \in DOMAIN sockets : sockets[i].readyState # "CLOSED"}

\* WebSocket.close(1000, ...) as the browser performs it: an OPEN socket starts
\* the closing handshake and will report the code it was closed with; a socket
\* still CONNECTING has its connection failed, which is reported as an error
\* event followed by a close event with code 1006; otherwise nothing happens.
CloseByClient(sock) ==
  IF sock.readyState = "OPEN"
  THEN [sock EXCEPT !.readyState = "CLOSING", !.code = 1000]
  ELSE IF sock.readyState = "CONNECTING"
       THEN [sock EXCEPT !.readyState = "CLOSING", !.code = 1006]
       ELSE sock

\* The close codes the close event of a socket may carry.
CloseCodes(sock) ==
  CASE sock.readyState = "CONNECTING" -> {1006}
    [] sock.readyState = "OPEN"       -> {1000, 1001, 1006}
    [] sock.readyState = "CLOSING"    -> {sock.code}
    [] OTHER                          -> {}

\* connectWebSocket(): sets sockets' and wsRef'.  `new WebSocket(url)` throws
\* only for a malformed URL, which the constant URL is not, so the catch branch
\* is not reachable.
ConnectWebSocket ==
  IF wsRef # Null /\ sockets[wsRef].readyState = "OPEN"
  THEN UNCHANGED <<sockets, wsRef>>
  ELSE /\ Len(sockets) < MaxSockets
       /\ Cardinality(Live) < MaxLive
       /\ sockets' = Append(sockets, NewSocket)
       /\ wsRef' = Len(sockets) + 1

\* An open event that leaves the attempt counter as it is.
AttemptsKeptOnOpen == reconnectAttemptsRef

\* ws.onopen: the value the attempt counter takes.
AttemptsAfterOpen == 0

\* ws.onopen
OnOpen(s) ==
  /\ sockets[s].readyState = "CONNECTING"
  /\ sockets' = [sockets EXCEPT ![s].readyState = "OPEN"]
  /\ isConnected' = TRUE
  /\ reconnectAttemptsRef' = AttemptsAfterOpen
  /\ backendLogs' = AppendLogs(backendLogs, <<LogConnected>>)
  /\ opens' = opens + 1
  /\ abnormalCloses' = 0
  /\ inserted' = [inserted EXCEPT !.logs = @ \o <<LogConnected>>,
                                  !.order = Append(@, "log")]
  /\ UNCHANGED <<wsRef, isProcessingRef, reconnectTimeoutRef, timers,
                 detectionIntervalRef, requestInterval, intervals, detections, ocrTextDetections,
                 currentFrameDetections, currentFrameOcrDetections,
                 camVars, rendered, mounted, inFlight, framesSent, noise,
                 tickDropped, viewVars>>

\* Reconnect conditions without the cap, and without the close code.
ReconnectUncapped(code, attempts) == code # 1000
ReconnectAnyCode(code, attempts) == attempts < maxReconnectAttempts

\* A retry delay that does not grow.
ReconnectDelayFlat(attempts) == reconnectDelay

\* ws.onclose: the reconnect condition and the delay of the retry.
ShouldReconnect(code, attempts) ==
  code # 1000 /\ attempts < maxReconnectAttempts

ReconnectDelayFor(attempts) == reconnectDelay * attempts

\* The socket's close event (preceded by its error event when the connection
\* failed, i.e. code 1006): ws.onerror, then ws.onclose.
OnClose(s, code) ==
  /\ code \in CloseCodes(sockets[s])
  /\ LET logs1 == IF code = 1006
                  THEN AppendLogs(backendLogs, <<LogWsError>>)
                  ELSE backendLogs
         n == reconnectAttemptsRef + 1
     IN /\ sockets' = [sockets EXCEPT ![s] =
                         [readyState |-> "CLOSED", code |-> 0,
                          frames |-> 0, inbox |-> <<>>]]
        /\ isConnected' = FALSE
        /\ wsRef' = Null
        /\ IF ShouldReconnect(code, reconnectAttemptsRef)
           THEN /\ reconnectAttemptsRef' = n
                /\ backendLogs' = AppendLogs(logs1, <<LogReconnect(n)>>)
                /\ reconnectTimeoutRef' = s
                /\ timers' = timers \cup {[id |-> s, delay |-> ReconnectDelayFor(n)]}
           ELSE /\ backendLogs' = IF reconnectAttemptsRef >= maxReconnectAttempts
                                  THEN AppendLogs(logs1, <<LogMaxAttempts>>)
                                  ELSE logs1
                /\ UNCHANGED <<reconnectAttemptsRef, reconnectTimeoutRef, timers>>
  /\ abnormalCloses' = IF code # 1000 THEN abnormalCloses + 1 ELSE abnormalCloses
  /\ LET added == (IF code = 1006 THEN <<LogWsError>> ELSE <<>>)
                   \o (IF ShouldReconnect(code, reconnectAttemptsRef)
                       THEN <<LogReconnect(reconnectAttemptsRef + 1)>>
                       ELSE IF reconnectAttemptsRef >= maxReconnectAttempts
                            THEN <<LogMaxAttempts>> ELSE <<>>)
     IN inserted' = [inserted EXCEPT !.logs = @ \o added,
                                     !.order = @ \o Arrivals("log", Len(added))]
  /\ UNCHANGED <<isProcessingRef, detectionIntervalRef, requestInterval, intervals, detections,
                 ocrTextDetections, currentFrameDetections,
                 currentFrameOcrDetections, camVars, rendered, mounted,
                 inFlight, framesSent, opens, noise, tickDropped, viewVars>>

\* The callback of the reconnect timeout armed by ws.onclose.
ReconnectTimer(t) ==
  /\ t \in timers
  /\ timers' = timers \ {t}
  /\ ConnectWebSocket
  /\ UNCHANGED <<isConnected, isProcessingRef, reconnectAttemptsRef,
                 reconnectTimeoutRef, detectionIntervalRef, requestInterval, intervals, histVars,
                 camVars, rendered, mounted, obsVars, viewVars>>

(* -------------------------- inbound messages -------------------------- *)

\* A detection of data.yolo_result.detections and a text detection of
\* data.paddleocr_result.text_detections (text, confidence, polygon).
YoloDet == [class |-> "person", confidence |-> 90,
            bbox |-> [x1 |-> 100, x2 |-> 200, y1 |-> 50, y2 |-> 150]]
OcrDet  == [text |-> "EXIT", confidence |-> 1,
            polygon |-> <<<<400, 300>>, <<600, 300>>, <<600, 400>>, <<400, 400>>>>]

\* message.data of a result message.
ResultPayloads ==
  { [logs |-> <<>>, yolo |-> <<>>, ocr |-> <<>>],
    [logs |-> <<"backend log">>, yolo |-> <<YoloDet>>, ocr |-> <<OcrDet>>] }

ResultMsgs == {[type |-> "result", data |-> d] : d \in ResultPayloads}
EmptyData  == [logs |-> <<>>, yolo |-> <<>>, ocr |-> <<>>]
ErrorMsg   == [type |-> "error", data |-> EmptyData]
\* What the endpoint answers a frame with.
ReplyMsgs  == ResultMsgs \cup {ErrorMsg}
\* Messages that answer no frame: the handshake confirmation, the keepalive,
\* a tag the client does not know, and text that is not JSON.
NoiseMsgs  == {[type |-> t, data |-> EmptyData] :
                 t \in {"connected", "pong", "unknown", "malformed"}}

\* Results that carry detections of one kind only.
PartialPayloads ==
  { [logs |-> <<>>, yolo |-> <<YoloDet>>, ocr |-> <<>>],
    [logs |-> <<>>, yolo |-> <<>>, ocr |-> <<OcrDet>>] }
PartialMsgs == {[type |-> "result", data |-> d] : d \in PartialPayloads}

\* A result message that has no data field: message.data is undefined.
Undefined == [undefined |-> TRUE]
ResultNoData == [type |-> "result", data |-> Undefined]
HasData(m) == "logs" \in DOMAIN m.data

\* A result whose three arrays are longer than the detection caps; its
\* entries are numbered so that their order can be told.
BulkPayload ==
  [logs |-> [i \in 1..BatchLen |-> ToString(i)],
   yolo |-> [i \in 1..BatchLen |-> [class |-> "person", id |-> i]],
   ocr  |-> [i \in 1..BatchLen |-> [text |-> "EXIT", id |-> i]]]
BulkMsg == [type |-> "result", data |-> BulkPayload]

\* data.logs.map(log => ({text: log, timestamp}))
LogsWithTimestamp(logs) == [i \in 1..Len(logs) |-> LogEntry(logs[i], 0)]

\* The remote endpoint answers one frame it has received.
ServerReply(s, m) ==
  /\ sockets[s].readyState = "OPEN"
  /\ sockets[s].frames > 0
  /\ m.type \in {"result", "error"}
  /\ sockets' = [sockets EXCEPT ![s].frames = @ - 1, ![s].inbox = Append(@, m)]
  /\ UNCHANGED <<wsRef, isConnected, isProcessingRef, reconnectAttemptsRef,
                 reconnectTimeoutRef, timers, detectionIntervalRef, requestInterval, intervals, histVars,
                 camVars, rendered, mounted, obsVars, viewVars>>

\* The remote endpoint sends a message that answers no frame.
ServerNoise(s, m) ==
  /\ sockets[s].readyState = "OPEN"
  /\ noise < MaxNoise
  /\ m \in NoiseMsgs
  /\ sockets' = [sockets EXCEPT ![s].inbox = Append(@, m)]
  /\ noise' = noise + 1
  /\ UNCHANGED <<wsRef, isConnected, isProcessingRef, reconnectAttemptsRef,
                 reconnectTimeoutRef, timers, detectionIntervalRef, requestInterval, intervals, histVars,
                 camVars, rendered, mounted, inFlight, framesSent, opens,
                 abnormalCloses, tickDropped, inserted, viewVars>>

\* An answer that leaves the processing flag as it is.
ProcessingKeptAfterAnswer == isProcessingRef

\* The value the processing flag takes when a result or an error message has
\* been handled.
ProcessingAfterAnswer == FALSE

\* A result branch that leaves a current-frame slot as it is when the message
\* carries no detection for it.
OnResultKeepingStale(data) ==
  /\ backendLogs' = AppendLogs(backendLogs, LogsWithTimestamp(data.logs))
  /\ detections' = AppendCapped(detections, WithTimestamp(data.yolo),
                                MAX_DETECTIONS)
  /\ ocrTextDetections' = AppendCapped(ocrTextDetections,
                                       WithTimestamp(data.ocr),
                                       MAX_OCR_DETECTIONS)
  /\ currentFrameDetections' =
       IF Len(data.yolo) > 0 THEN data.yolo ELSE currentFrameDetections
  /\ currentFrameOcrDetections' =
       IF Len(data.ocr) > 0 THEN data.ocr ELSE currentFrameOcrDetections
  /\ isProcessingRef' = ProcessingAfterAnswer

\* ws.onmessage, branch message.type === 'result'
OnResult(data) ==
  /\ backendLogs' = AppendLogs(backendLogs, LogsWithTimestamp(data.logs))
  /\ IF Len(data.yolo) > 0
     THEN /\ detections' = AppendCapped(detections, WithTimestamp(data.yolo),
                                        MAX_DETECTIONS)
          /\ currentFrameDetections' = data.yolo
     ELSE /\ currentFrameDetections' = <<>>
          /\ UNCHANGED detections
  /\ IF Len(data.ocr) > 0
     THEN /\ ocrTextDetections' =
               AppendCapped(ocrTextDetections, WithTimestamp(data.ocr),
                            MAX_OCR_DETECTIONS)
          /\ currentFrameOcrDetections' = data.ocr
     ELSE /\ currentFrameOcrDetections' = <<>>
          /\ UNCHANGED ocrTextDetections
  /\ isProcessingRef' = ProcessingAfterAnswer

\* An error branch that also empties the current-frame slots.
OnErrorClearingFrame ==
  /\ backendLogs' = AppendLogs(backendLogs, <<LogServiceError>>)
  /\ isProcessingRef' = ProcessingAfterAnswer
  /\ currentFrameDetections' = <<>>
  /\ currentFrameOcrDetections' = <<>>
  /\ UNCHANGED <<detections, ocrTextDetections>>

\* ws.onmessage, branch message.type === 'error'
OnError ==
  /\ backendLogs' = AppendLogs(backendLogs, <<LogServiceError>>)
  /\ isProcessingRef' = ProcessingAfterAnswer
  /\ UNCHANGED <<detections, ocrTextDetections, currentFrameDetections,
                 currentFrameOcrDetections>>

\* A discard that also clears the processing flag.
OnDiscardClearingFlag ==
  /\ isProcessingRef' = FALSE
  /\ UNCHANGED histVars

\* ws.onmessage, the branches that change nothing: 'connected' and 'pong', a
\* type no branch tests for, and the catch of a JSON.parse failure.
OnDiscard == UNCHANGED <<histVars, isProcessingRef>>

\* ws.onmessage: the browser delivers the next message of an OPEN socket.
OnMessage(s) ==
  /\ sockets[s].readyState = "OPEN"
  /\ sockets[s].inbox # <<>>
  /\ LET m == Head(sockets[s].inbox)
     IN /\ sockets' = [sockets EXCEPT ![s].inbox = Tail(@)]
        \* data.logs of an undefined data throws a TypeError, which the catch
        \* of the handler writes to the console
        /\ CASE m.type = "result" /\ HasData(m) -> OnResult(m.data)
             [] m.type = "error"  -> OnError
             [] OTHER -> OnDiscard
        /\ inFlight' = IF m.type \in {"result", "error"} /\ inFlight > 0
                       THEN inFlight - 1 ELSE inFlight
        /\ inserted' =
             CASE m.type = "result" /\ HasData(m) ->
                    [logs |-> inserted.logs \o LogsWithTimestamp(m.data.logs),
                     dets |-> inserted.dets \o WithTimestamp(m.data.yolo),
                     ocr  |-> inserted.ocr \o WithTimestamp(m.data.ocr),
                     order |-> inserted.order
                                 \o Arrivals("log", Len(m.data.logs))
                                 \o Arrivals("yolo", Len(m.data.yolo))
                                 \o Arrivals("ocr", Len(m.data.ocr))]
               [] m.type = "error" ->
                    [inserted EXCEPT !.logs = @ \o <<LogServiceError>>,
                                     !.order = Append(@, "log")]
               [] OTHER -> inserted
        /\ sourceFlip' = IF m.type = "result" /\ HasData(m)
                         THEN frameFlip ELSE sourceFlip
  /\ UNCHANGED <<wsRef, isConnected, reconnectAttemptsRef, reconnectTimeoutRef,
                 timers, detectionIntervalRef, requestInterval, intervals,
                 camVars, rendered, mounted, framesSent, opens, noise,
                 abnormalCloses, tickDropped, now, unifiedEvents, overlayVars,
                 frameFlip>>

(* --------------------------- frame scheduler -------------------------- *)

DEFAULT_REQUEST_INTERVAL == 500
\* The periods requestInterval takes: the default and a slower one.
SlowRequestInterval == 1000
RequestIntervals == {DEFAULT_REQUEST_INTERVAL, SlowRequestInterval}

\* captureAndDetect, first guard: refs present and no frame being processed.
\* videoRef and canvasRef are refs of sibling elements of VideoDisplay, present
\* together.
\* The guard without the processing flag.
CanCaptureIgnoringFlag == video.present

CanCapture == video.present /\ ~isProcessingRef

\* video.readyState >= 2 with non-zero videoWidth / videoHeight
VideoReady == video.present /\ video.ready

\* A send condition that also accepts a socket still connecting.
ChannelUp == wsRef # Null /\ sockets[wsRef].readyState \in {"CONNECTING", "OPEN"}

\* captureAndDetect, the connection check: wsRef.current is set and OPEN.
ChannelOpen == wsRef # Null /\ sockets[wsRef].readyState = "OPEN"

\* captureAndDetect().  The closure's isConnected and flipImage are the values
\* of the commit that armed the interval; the frame is drawn flipped when that
\* flipImage is true.  toDataURL and send cannot throw here (the canvas
\* is not tainted and the socket is OPEN), so the catch branch is not reachable.
CaptureAndDetect ==
  IF ~CanCapture \/ ~VideoReady
  THEN UNCHANGED <<sockets, wsRef, isProcessingRef, inFlight, framesSent,
                   tickDropped, frameFlip>>
  ELSE IF ~ChannelOpen
       THEN /\ IF ~rendered.isConnected
               THEN ConnectWebSocket
               ELSE UNCHANGED <<sockets, wsRef>>
            /\ tickDropped' = TRUE
            /\ UNCHANGED <<isProcessingRef, inFlight, framesSent, frameFlip>>
       ELSE /\ framesSent < MaxFrames
            /\ isProcessingRef' = TRUE
            /\ sockets' = [sockets EXCEPT ![wsRef].frames = @ + 1]
            /\ frameFlip' = rendered.flipImage
            /\ inFlight' = inFlight + 1
            /\ framesSent' = framesSent + 1
            /\ UNCHANGED <<wsRef, tickDropped>>

\* The setInterval callback armed by startDetectionInterval.
Tick ==
  /\ \E p \in RequestIntervals : intervals[p] > 0
  /\ IF VideoReady
     THEN CaptureAndDetect
     ELSE UNCHANGED <<sockets, wsRef, isProcessingRef, inFlight, framesSent,
                      tickDropped, frameFlip>>
  /\ UNCHANGED <<isConnected, reconnectAttemptsRef, reconnectTimeoutRef, timers,
                 detectionIntervalRef, requestInterval, intervals, histVars,
                 camVars, rendered, mounted, opens, noise, abnormalCloses,
                 inserted, now, unifiedEvents, overlayVars, sourceFlip>>

\* clearInterval(id) and setInterval(callback, period) on the browser's
\* intervals; an interval is known by its period.
ClearInterval(ivs, id) == IF id # Null THEN [ivs EXCEPT ![id] = @ - 1] ELSE ivs
SetInterval(ivs, period) == [ivs EXCEPT ![period] = @ + 1]

\* startDetectionInterval() of the commit that sees isConnected = conn:
\* sets detectionIntervalRef', intervals', sockets', wsRef'.
StartDetectionInterval(conn) ==
  /\ IF ~conn THEN ConnectWebSocket ELSE UNCHANGED <<sockets, wsRef>>
  /\ detectionIntervalRef' = requestInterval
  /\ intervals' = SetInterval(ClearInterval(intervals, detectionIntervalRef),
                              requestInterval)

\* stopDetectionInterval(): sets detectionIntervalRef', intervals'.
StopDetectionInterval ==
  /\ detectionIntervalRef' = Null
  /\ intervals' = ClearInterval(intervals, detectionIntervalRef)

\* A clearing that leaves the two detection histories as they are.
ClearKeepingDetections ==
  /\ currentFrameDetections' = <<>>
  /\ currentFrameOcrDetections' = <<>>
  /\ backendLogs' = <<>>
  /\ UNCHANGED <<detections, ocrTextDetections>>

\* clearDetections(): sets the five histories.
ClearDetections ==
  /\ currentFrameDetections' = <<>>
  /\ currentFrameOcrDetections' = <<>>
  /\ detections' = <<>>
  /\ ocrTextDetections' = <<>>
  /\ backendLogs' = <<>>

\* disconnectWebSocket(): sets timers', reconnectTimeoutRef', sockets', wsRef',
\* isConnected'.  clearTimeout cancels the one timeout the ref names.
DisconnectWebSocket ==
  /\ timers' = {t \in timers : t.id # reconnectTimeoutRef}
  /\ reconnectTimeoutRef' = Null
  /\ sockets' = IF wsRef # Null
                THEN [sockets EXCEPT ![wsRef] = CloseByClient(@)]
                ELSE sockets
  /\ wsRef' = Null
  /\ isConnected' = FALSE

(* ------------------------------ overlay ------------------------------- *)

IDEAL_WIDTH == 1280
IDEAL_HEIGHT == 720
LabelHeight == 24

\* The sizes the video element is laid out at.
Displays == {[width |-> 640, height |-> 360], [width |-> 960, height |-> 360],
             [width |-> 1280, height |-> 720]}

\* A canvas element as created: 300 x 150, nothing drawn.
BlankCanvas == [width |-> 300, height |-> 150, items |-> <<>>]

\* ctx.clearRect(0, 0, canvas.width, canvas.height)
ClearRect(canvas) == [canvas EXCEPT !.items = <<>>]

Max(a, b) == IF a >= b THEN a ELSE b
MinOf(S) == CHOOSE m \in S : \A n \in S : m <= n

\* calculateScaleFactors: the factors are kept as fractions; the coordinates
\* of the model are such that every product below is a whole number.
CalculateScaleFactors(videoDisplayWidth, videoDisplayHeight, videoActualWidth, videoActualHeight) ==
  [scaleX |-> [num |-> videoDisplayWidth, den |-> videoActualWidth],
   scaleY |-> [num |-> videoDisplayHeight, den |-> videoActualHeight]]

\* v * scale
Times(v, scale) == (v * scale.num) \div scale.den

\* A transform of x that scales and never mirrors.
ScaleOnlyX(x, scaleX, videoDisplayWidth, flip) == Times(x, scaleX)

\* scaleAndFlipX
ScaleAndFlipX(x, scaleX, videoDisplayWidth, flip) ==
  IF flip THEN Times(x, scaleX) ELSE videoDisplayWidth - Times(x, scaleX)

\* A label origin that is not clamped.
LabelYUnclamped(top) == top - LabelHeight

\* Math.max(0, top - labelHeight)
LabelY(top) == Max(0, top - LabelHeight)

\* drawYOLOBox: strokeRect(x1, y1, width, height) and the label's fillRect
\* at (labelX, labelY).
DrawYOLOBox(detection, x1, y1, width, height) ==
  [kind |-> "yolo", x |-> x1, y |-> y1, width |-> width, height |-> height,
   labelX |-> x1, labelY |-> LabelY(y1)]

\* drawOCRBox: the closed path through the polygon and the label's fillRect.
DrawOCRBox(ocrDetection, scaledPolygon) ==
  [kind |-> "ocr", polygon |-> scaledPolygon,
   labelX |-> MinOf({scaledPolygon[i][1] : i \in DOMAIN scaledPolygon}),
   labelY |-> LabelY(MinOf({scaledPolygon[i][2] : i \in DOMAIN scaledPolygon}))]

\* drawBoxes, the forEach over currentFrameDetections.
YoloItem(detection, scale, rect, flip) ==
  LET bbox == detection.bbox
      x1 == IF flip THEN Times(bbox.x1, scale.scaleX)
            ELSE ScaleAndFlipX(bbox.x1, scale.scaleX, rect.width, FALSE)
      x2 == IF flip THEN Times(bbox.x2, scale.scaleX)
            ELSE ScaleAndFlipX(bbox.x2, scale.scaleX, rect.width, FALSE)
      y1 == Times(bbox.y1, scale.scaleY)
      y2 == Times(bbox.y2, scale.scaleY)
  IN DrawYOLOBox(detection, x1, y1, x2 - x1, y2 - y1)

\* A polygon transform that scales its vertices and never mirrors them.
OcrItemUnmirrored(ocrDetection, scale, rect, flip) ==
  DrawOCRBox(ocrDetection,
             [i \in DOMAIN ocrDetection.polygon |->
                <<Times(ocrDetection.polygon[i][1], scale.scaleX),
                  Times(ocrDetection.polygon[i][2], scale.scaleY)>>])

\* drawBoxes, the forEach over currentFrameOcrDetections (polygons of four
\* points; the model's detections have no others).
OcrItem(ocrDetection, scale, rect, flip) ==
  DrawOCRBox(ocrDetection,
             [i \in DOMAIN ocrDetection.polygon |->
                <<ScaleAndFlipX(ocrDetection.polygon[i][1], scale.scaleX,
                                rect.width, flip),
                  Times(ocrDetection.polygon[i][2], scale.scaleY)>>])

\* drawBoxes() with the inputs its closure holds, on the canvas as it is:
\* without the elements nothing is drawn; with a video that has no
\* dimensions yet the canvas is left as it is; otherwise the canvas takes the
\* size of the video's bounding rect and the boxes are drawn.
DrawBoxes(inputs, rect, canvas) ==
  IF ~video.present THEN canvas
  ELSE IF ~video.ready THEN canvas
  ELSE LET scale == CalculateScaleFactors(rect.width, rect.height,
                                          IDEAL_WIDTH, IDEAL_HEIGHT)
       IN [width |-> rect.width, height |-> rect.height,
           items |-> [i \in 1..Len(inputs.dets) |->
                        YoloItem(inputs.dets[i], scale, rect, inputs.flipImage)]
                     \o [i \in 1..Len(inputs.ocr) |->
                          OcrItem(inputs.ocr[i], scale, rect, inputs.flipImage)]]

\* The inputs of useCanvasDrawing as of now.
DrawInputs == [dets |-> currentFrameDetections,
               ocr |-> currentFrameOcrDetections,
               flipImage |-> flipImage]

\* The effect of useCanvasDrawing, deps [currentFrameDetections,
\* currentFrameOcrDetections, flipImage, ...]: a commit after one of them
\* changed draws with the new inputs and registers the new drawBoxes as the
\* resize listener.
DrawEffect ==
  /\ mounted
  /\ drawBoxes # DrawInputs
  /\ drawBoxes' = DrawInputs
  /\ overlay' = DrawBoxes(DrawInputs, display, overlay)
  /\ UNCHANGED <<detVars, histVars, camVars, rendered, mounted, obsVars, now,
                 unifiedEvents, encVars, flipImage, display>>

\* A resize that nothing listens to.
ResizeUnheard(rect) ==
  /\ mounted
  /\ rect \in Displays
  /\ rect # display
  /\ display' = rect
  /\ UNCHANGED <<detVars, histVars, camVars, rendered, mounted, obsVars, now,
                 unifiedEvents, encVars, flipImage, drawBoxes, overlay>>

\* The window is resized, the video element is laid out at the size rect, and
\* handleResize calls the registered drawBoxes.
Resize(rect) ==
  /\ mounted
  /\ rect \in Displays
  /\ rect # display
  /\ display' = rect
  /\ overlay' = DrawBoxes(drawBoxes, rect, overlay)
  /\ UNCHANGED <<detVars, histVars, camVars, rendered, mounted, obsVars, now,
                 unifiedEvents, encVars, flipImage, drawBoxes>>

\* handleFlipToggle (the Flip button, shown while isStreaming):
\* setFlipImage(!flipImage) with the flipImage of the last commit.
HandleFlipToggle ==
  /\ mounted
  /\ rendered.isStreaming
  /\ flipImage' = ~rendered.flipImage
  /\ UNCHANGED <<detVars, histVars, camVars, rendered, mounted, obsVars, now,
                 unifiedEvents, encVars, display, overlay, drawBoxes>>

(* ------------------------------- camera ------------------------------- *)

ErrSelect     == "Please select a camera device."
ErrAccess     == "Unable to access camera"
ErrTrackEnded == "Camera track ended. Trying to reconnect..."
ErrTrackError == "Camera track error. Trying to reconnect..."
ErrVideo      == "Video stream error. Trying to reconnect..."
ErrStreamEnded == "Camera stream ended. Trying to reconnect..."

\* The <video> element: whether VideoDisplay has one mounted, its srcObject
\* (index into streams), whether it has data (readyState >= 2 and non-zero
\* dimensions), and whether useCamera's listeners are attached to it (lsel: the
\* selectedDeviceId their closure holds).
NoVideo    == [present |-> FALSE, srcObject |-> Null, ready |-> FALSE,
               listeners |-> FALSE, lsel |-> NoDevice]
FreshVideo == [present |-> TRUE, srcObject |-> Null, ready |-> FALSE,
               listeners |-> FALSE, lsel |-> NoDevice]

\* A getUserMedia call: pending, then live (tracks running), ended (tracks
\* stopped or ended) or rejected.  kind: which caller made it; isMounted: the
\* isMounted flag of the auto-start effect instance that made it; handlers:
\* whether onended / onerror have been attached to its tracks.
NewCall(kind, dev) ==
  [st |-> "pending", kind |-> kind, dev |-> dev, isMounted |-> TRUE, handlers |-> FALSE]

\* A pending recovery timeout (setTimeout(..., 1000)).  Whichever handler armed
\* it, its callback evaluates a guard and at most calls
\* setSelectedDeviceId(prev => prev); timeouts are told apart by nothing the
\* program reads.
RecoveryTimeout == [delay |-> CAMERA_RETRY_DELAY]

\* stream.getTracks().forEach(track => track.stop())
StopStream(ss, i) ==
  IF i # Null /\ ss[i].st = "live" THEN [ss EXCEPT ![i].st = "ended"] ELSE ss

\* "Stop existing stream if any": the stream of streamRef and the one attached
\* to the video element.
ReleaseHeld(ss) ==
  StopStream(StopStream(ss, streamRef),
             IF video.present THEN video.srcObject ELSE Null)

DetachVideo(v) ==
  IF v.present /\ v.srcObject # Null
  THEN [v EXCEPT !.srcObject = Null, !.ready = FALSE]
  ELSE v

\* A stop that flips the stopped flag instead of setting it.
StopCameraFlipping ==
  /\ cameraStoppedRef' = ~cameraStoppedRef
  /\ streams' = ReleaseHeld(streams)
  /\ streamRef' = Null
  /\ video' = DetachVideo(video)
  /\ isStreaming' = IF video.present /\ video.srcObject # Null
                    THEN FALSE ELSE isStreaming

\* stopCamera(): sets cameraStoppedRef', streams', streamRef', video', isStreaming'.
StopCamera ==
  /\ cameraStoppedRef' = TRUE
  /\ streams' = ReleaseHeld(streams)
  /\ streamRef' = Null
  /\ video' = DetachVideo(video)
  /\ isStreaming' = IF video.present /\ video.srcObject # Null
                    THEN FALSE ELSE isStreaming

\* handleStopCamera (the Stop Camera button, shown while isStreaming):
\* stopCamera(); stopDetectionInterval(); clearDetections(); clear the overlay.
HandleStopCamera ==
  /\ mounted
  /\ rendered.isStreaming
  /\ StopCamera
  /\ StopDetectionInterval
  /\ ClearDetections
  /\ inserted' = [logs |-> <<>>, dets |-> <<>>, ocr |-> <<>>, order |-> <<>>]
  /\ overlay' = ClearRect(overlay)
  /\ UNCHANGED <<sockets, wsRef, isConnected, isProcessingRef,
                 reconnectAttemptsRef, reconnectTimeoutRef, timers,
                 devices, selectedDeviceId, error, autoStream, camTimers,
                 rendered, mounted, requestInterval, inFlight, framesSent,
                 opens, noise, abnormalCloses, tickDropped, now,
                 unifiedEvents, encVars, flipImage, display, drawBoxes>>

\* startCamera (the Start Camera button, shown while not streaming and no
\* error; the Retry button, shown while there is an error): the part up to the
\* await of getUserMedia.
StartCamera ==
  /\ mounted
  /\ rendered.error # NoError \/ ~rendered.isStreaming
  /\ IF rendered.selectedDeviceId = NoDevice
     THEN /\ error' = ErrSelect
          /\ UNCHANGED <<cameraStoppedRef, streams, streamRef, video>>
     ELSE /\ Len(streams) < MaxStreams
          /\ cameraStoppedRef' = FALSE
          /\ streams' = Append(ReleaseHeld(streams),
                               NewCall("manual", rendered.selectedDeviceId))
          /\ streamRef' = Null
          /\ video' = DetachVideo(video)
          /\ UNCHANGED error
  /\ UNCHANGED <<detVars, histVars, devices, selectedDeviceId, isStreaming,
                 autoStream, camTimers, rendered, mounted, obsVars, viewVars>>

\* handleDeviceChange: the select is enabled once devices are listed.
HandleDeviceChange(d) ==
  /\ mounted
  /\ d \in devices
  /\ d # selectedDeviceId
  /\ selectedDeviceId' = d
  /\ UNCHANGED <<detVars, histVars, devices, isStreaming, error,
                 cameraStoppedRef, streamRef, video, streams, autoStream,
                 camTimers, rendered, mounted, obsVars, viewVars>>

\* getDevices, after its awaits resolve: the permission stream is live (it is
\* never stopped), the devices are listed and, selectedDeviceId being '' in the
\* closure of the mount effect, the first device is selected.
GetDevicesResolved(i) ==
  /\ streams[i].st = "pending" /\ streams[i].kind = "perm"
  /\ streams' = [streams EXCEPT ![i].st = "live"]
  /\ devices' = DeviceIds
  /\ selectedDeviceId' = 1
  /\ UNCHANGED <<detVars, histVars, isStreaming, error, cameraStoppedRef,
                 streamRef, video, autoStream, camTimers, rendered, mounted,
                 obsVars, viewVars>>

\* startCamera, after getUserMedia resolves.
StartCameraResolved(i) ==
  /\ streams[i].st = "pending" /\ streams[i].kind = "manual"
  /\ streams' = [streams EXCEPT ![i].st = "live", ![i].handlers = TRUE]
  /\ streamRef' = i
  /\ IF video.present
     THEN /\ video' = [video EXCEPT !.srcObject = i, !.ready = FALSE]
          /\ isStreaming' = TRUE
          /\ error' = NoError
     ELSE UNCHANGED <<video, isStreaming, error>>
  /\ UNCHANGED <<detVars, histVars, devices, selectedDeviceId,
                 cameraStoppedRef, autoStream, camTimers, rendered, mounted,
                 obsVars, viewVars>>

\* An auto-start that takes the stream without asking whether its effect
\* instance is still the current one.
StartCameraAutoResolvedUnasked(i) ==
  /\ streams[i].st = "pending" /\ streams[i].kind = "auto"
  /\ streams' = [streams EXCEPT ![i].st = "live", ![i].handlers = TRUE]
  /\ autoStream' = i
  /\ streamRef' = i
  /\ IF video.present
     THEN /\ video' = [video EXCEPT !.srcObject = i, !.ready = FALSE]
          /\ isStreaming' = TRUE
          /\ error' = NoError
          /\ cameraStoppedRef' = FALSE
     ELSE UNCHANGED <<video, isStreaming, error, cameraStoppedRef>>
  /\ UNCHANGED <<detVars, histVars, devices, selectedDeviceId, camTimers,
                 rendered, mounted, obsVars, viewVars>>

\* startCameraAuto, after getUserMedia resolves.
StartCameraAutoResolved(i) ==
  /\ streams[i].st = "pending" /\ streams[i].kind = "auto"
  /\ IF ~streams[i].isMounted
     THEN /\ streams' = [streams EXCEPT ![i].st = "ended"]
          /\ UNCHANGED <<streamRef, video, isStreaming, error,
                         cameraStoppedRef, autoStream>>
     ELSE /\ streams' = [streams EXCEPT ![i].st = "live", ![i].handlers = TRUE]
          /\ autoStream' = i
          /\ streamRef' = i
          /\ IF video.present
             THEN /\ video' = [video EXCEPT !.srcObject = i, !.ready = FALSE]
                  /\ isStreaming' = TRUE
                  /\ error' = NoError
                  /\ cameraStoppedRef' = FALSE
             ELSE UNCHANGED <<video, isStreaming, error, cameraStoppedRef>>
  /\ UNCHANGED <<detVars, histVars, devices, selectedDeviceId, camTimers,
                 rendered, mounted, obsVars, viewVars>>

\* getUserMedia rejects (permission declined, device unavailable): the catch
\* branch of the caller.
GetUserMediaRejected(i) ==
  /\ streams[i].st = "pending"
  /\ streams' = [streams EXCEPT ![i].st = "rejected"]
  /\ IF streams[i].kind = "manual"
        \/ (streams[i].kind = "auto" /\ streams[i].isMounted)
     THEN error' = ErrAccess /\ isStreaming' = FALSE
     ELSE UNCHANGED <<error, isStreaming>>
  /\ UNCHANGED <<detVars, histVars, devices, selectedDeviceId,
                 cameraStoppedRef, streamRef, video, autoStream, camTimers,
                 rendered, mounted, obsVars, viewVars>>

\* A track ends by itself (the device goes away): track.onended.
TrackEnded(i) ==
  /\ streams[i].st = "live"
  /\ streams' = [streams EXCEPT ![i].st = "ended"]
  /\ IF streams[i].handlers /\ ~cameraStoppedRef
        /\ (streams[i].kind = "auto" => streams[i].isMounted)
     THEN /\ error' = ErrTrackEnded
          /\ isStreaming' = FALSE
          /\ camTimers' = camTimers \cup {RecoveryTimeout}
     ELSE UNCHANGED <<error, isStreaming, camTimers>>
  /\ UNCHANGED <<detVars, histVars, devices, selectedDeviceId,
                 cameraStoppedRef, streamRef, video, autoStream, rendered,
                 mounted, obsVars, viewVars>>

\* track.onerror
TrackError(i) ==
  /\ streams[i].st = "live" /\ streams[i].handlers
  /\ ~cameraStoppedRef
  /\ streams[i].kind = "auto" => streams[i].isMounted
  /\ error' = ErrTrackError
  /\ isStreaming' = FALSE
  /\ UNCHANGED <<detVars, histVars, devices, selectedDeviceId,
                 cameraStoppedRef, streamRef, video, streams, autoStream,
                 camTimers, rendered, mounted, obsVars, viewVars>>

\* The video element has loaded the attached stream: handleLoadedMetadata.
VideoLoaded ==
  /\ video.present /\ video.srcObject # Null /\ ~video.ready
  /\ streams[video.srcObject].st = "live"
  /\ video' = [video EXCEPT !.ready = TRUE]
  /\ IF video.listeners
     THEN isStreaming' = TRUE /\ error' = NoError
     ELSE UNCHANGED <<isStreaming, error>>
  /\ UNCHANGED <<detVars, histVars, devices, selectedDeviceId,
                 cameraStoppedRef, streamRef, streams, autoStream, camTimers,
                 rendered, mounted, obsVars, viewVars>>

\* The video element reports an error: handleError.
VideoError ==
  /\ video.present /\ video.srcObject # Null /\ video.listeners
  /\ error' = ErrVideo
  /\ isStreaming' = FALSE
  /\ camTimers' = camTimers \cup {RecoveryTimeout}
  /\ UNCHANGED <<detVars, histVars, devices, selectedDeviceId,
                 cameraStoppedRef, streamRef, video, streams, autoStream,
                 rendered, mounted, obsVars, viewVars>>

\* The video element's stream has ended: handleEnded.
VideoEnded ==
  /\ video.present /\ video.srcObject # Null /\ video.listeners
  /\ streams[video.srcObject].st = "ended"
  /\ error' = ErrStreamEnded
  /\ isStreaming' = FALSE
  /\ camTimers' = IF ~cameraStoppedRef /\ video.lsel # NoDevice
                  THEN camTimers \cup {RecoveryTimeout}
                  ELSE camTimers
  /\ UNCHANGED <<detVars, histVars, devices, selectedDeviceId,
                 cameraStoppedRef, streamRef, video, streams, autoStream,
                 rendered, mounted, obsVars, viewVars>>

\* A recovery timeout fires: at most setSelectedDeviceId(prev => prev), which
\* leaves the state as it is (React bails out of an update to the same value).
CameraTimer(t) ==
  /\ t \in camTimers
  /\ camTimers' = camTimers \ {t}
  /\ UNCHANGED <<detVars, histVars, devices, selectedDeviceId, isStreaming,
                 error, cameraStoppedRef, streamRef, video, streams,
                 autoStream, rendered, mounted, obsVars, viewVars>>

\* setRequestInterval(p): the capture interval handed to useDetection changes.
SetRequestInterval(p) ==
  /\ mounted
  /\ p \in RequestIntervals
  /\ p # requestInterval
  /\ requestInterval' = p
  /\ UNCHANGED <<sockets, wsRef, isConnected, isProcessingRef,
                 reconnectAttemptsRef, reconnectTimeoutRef, timers,
                 detectionIntervalRef, intervals, histVars, camVars, rendered,
                 mounted, obsVars, viewVars>>

(* ------------------------- DetectionTerminal -------------------------- *)

\* An event of the unified list.  index is the entry's position in its
\* history (it is part of the event's key); a log's timestamp is the one it
\* was stored with (every stored entry has one), falling back to Date.now().
Event(type, entry, index) ==
  [type |-> type,
   timestamp |-> IF entry.timestamp # 0 THEN entry.timestamp ELSE now,
   data |-> entry,
   index |-> index]

EventsOf(type, history) ==
  [i \in 1..Len(history) |-> Event(type, history[i], i)]

\* A sort that leaves the events as they are.
Unsorted(events) == events

\* events.sort((a, b) => a.timestamp - b.timestamp): Array.prototype.sort is
\* stable, so an event goes after every event whose timestamp is not greater.
InsertByTimestamp(sorted, e) ==
  LET k == Cardinality({i \in DOMAIN sorted :
                          sorted[i].timestamp <= e.timestamp})
  IN SubSeq(sorted, 1, k) \o <<e>> \o SubSeq(sorted, k + 1, Len(sorted))

RECURSIVE SortByTimestamp(_)
SortByTimestamp(events) ==
  IF events = <<>> THEN <<>>
  ELSE InsertByTimestamp(SortByTimestamp(SubSeq(events, 1, Len(events) - 1)),
                         events[Len(events)])

\* The useMemo of unifiedEvents: logs, then detections, then OCR detections
\* are pushed, and the array is sorted by timestamp.
UnifiedEvents(logs, dets, ocr) ==
  SortByTimestamp(EventsOf("log", logs) \o EventsOf("yolo", dets)
                    \o EventsOf("ocr", ocr))

\* DetectionTerminal renders with histories that changed: the memo is
\* recomputed.
RenderTerminal ==
  /\ mounted
  /\ unifiedEvents # UnifiedEvents(backendLogs, detections, ocrTextDetections)
  /\ unifiedEvents' =
       UnifiedEvents(backendLogs, detections, ocrTextDetections)
  /\ UNCHANGED <<detVars, histVars, camVars, rendered, mounted, obsVars, now,
                 overlayVars, encVars>>

\* A millisecond passes.
ClockTick ==
  /\ now < MaxNow
  /\ now' = now + 1
  /\ UNCHANGED <<detVars, histVars, camVars, rendered, mounted, obsVars,
                 unifiedEvents, encVars, overlayVars>>

(* -------------------------------- React ------------------------------- *)

Current == [isStreaming |-> isStreaming, isConnected |-> isConnected,
            error |-> error, selectedDeviceId |-> selectedDeviceId,
            requestInterval |-> requestInterval, flipImage |-> flipImage]

\* VideoDisplay: with an error the video and canvas elements are not rendered;
\* without one they are (a newly mounted element has no stream, no listeners).
CommitVideo(v) ==
  IF error # NoError THEN NoVideo
  ELSE IF ~v.present THEN FreshVideo ELSE v

\* useCamera's "Handle video stream events" effect, deps [selectedDeviceId]:
\* listeners are attached to the element videoRef.current holds when it runs.
AttachListeners(v) ==
  IF v.present
  THEN [v EXCEPT !.listeners = TRUE, !.lsel = selectedDeviceId]
  ELSE v

\* Cleanup of useCamera's auto-start effect: isMounted = false, the stream of
\* streamRef and the effect instance's own stream are stopped.
AutoCleanup(ss) ==
  LET unmounted == [i \in DOMAIN ss |->
                      IF ss[i].kind = "auto"
                      THEN [ss[i] EXCEPT !.isMounted = FALSE] ELSE ss[i]]
  IN StopStream(StopStream(unmounted, streamRef), autoStream)

\* A commit after a state change: the elements of VideoDisplay are mounted or
\* unmounted, then the effects whose dependencies changed run (cleanups first).
Render ==
  /\ mounted
  /\ rendered # Current
  /\ rendered' = Current
  /\ LET devChanged   == selectedDeviceId # rendered.selectedDeviceId
         \* captureAndDetect, and with it startDetectionInterval, is
         \* recreated when flipImage, isConnected or requestInterval changes
         intervalDeps == \/ isStreaming # rendered.isStreaming
                         \/ isConnected # rendered.isConnected
                         \/ requestInterval # rendered.requestInterval
                         \/ flipImage # rendered.flipImage
         v1 == CommitVideo(video)
         v2 == IF devChanged THEN AttachListeners(v1) ELSE v1
         \* useCamera's auto-start effect, deps [selectedDeviceId]
         autoStarts == devChanged /\ selectedDeviceId # NoDevice
                       /\ ~cameraStoppedRef
         ss1 == IF devChanged THEN AutoCleanup(streams) ELSE streams
     IN /\ IF autoStarts
           THEN \* startCameraAuto up to the await of getUserMedia
                /\ Len(streams) < MaxStreams
                /\ streams' = Append(StopStream(ss1, v2.srcObject),
                                     NewCall("auto", selectedDeviceId))
                /\ video' = DetachVideo(v2)
           ELSE /\ streams' = ss1
                /\ video' = v2
        \* a canvas element mounted by this commit is blank
        /\ overlay' = IF v1.present /\ video.present THEN overlay
                      ELSE BlankCanvas
        /\ streamRef' = IF devChanged THEN Null ELSE streamRef
        /\ autoStream' = IF devChanged THEN Null ELSE autoStream
        \* CameraFeed's interval effect,
        \* deps [isStreaming, startDetectionInterval, stopDetectionInterval]
        /\ IF intervalDeps /\ isStreaming
           THEN StartDetectionInterval(isConnected)
           ELSE IF intervalDeps
                THEN StopDetectionInterval /\ UNCHANGED <<sockets, wsRef>>
                ELSE UNCHANGED <<detectionIntervalRef, intervals, sockets, wsRef>>
  /\ UNCHANGED <<isConnected, isProcessingRef, reconnectAttemptsRef,
                 reconnectTimeoutRef, timers, histVars, devices,
                 selectedDeviceId, isStreaming, error, cameraStoppedRef,
                 camTimers, mounted, requestInterval, obsVars, now,
                 unifiedEvents, encVars, flipImage, display, drawBoxes>>

\* The component is unmounted: every effect's cleanup runs
\* (stopDetectionInterval, disconnectWebSocket, the auto-start cleanup) and the
\* element refs are detached.
Unmount ==
  /\ mounted
  /\ mounted' = FALSE
  /\ StopDetectionInterval
  /\ DisconnectWebSocket
  /\ streams' = AutoCleanup(streams)
  /\ streamRef' = Null
  /\ video' = NoVideo
  /\ overlay' = BlankCanvas
  /\ UNCHANGED <<isProcessingRef, reconnectAttemptsRef, histVars, devices,
                 selectedDeviceId, isStreaming, error, cameraStoppedRef,
                 autoStream, camTimers, rendered, requestInterval, obsVars,
                 now, unifiedEvents, encVars, flipImage, display, drawBoxes>>

(* --------------------------- specification ---------------------------- *)

\* The state once the component has mounted and its mount effects have run:
\* connectWebSocket() has constructed the first socket, getDevices() awaits the
\* permission request, the video listeners are attached.
\* The state of a mounted CameraFeed whose first socket is sock: the mount
\* effects have run (connectWebSocket, getDevices, the video listeners), no
\* camera has been selected yet.
Mounted(sock, conn, logs, n) ==
  /\ now = 1
  /\ unifiedEvents = <<>>
  /\ sockets = <<sock>>
  /\ wsRef = 1
  /\ isConnected = conn
  /\ isProcessingRef = FALSE
  /\ reconnectAttemptsRef = 0
  /\ reconnectTimeoutRef = Null
  /\ timers = {}
  /\ detectionIntervalRef = Null
  /\ backendLogs = logs
  /\ detections = <<>>
  /\ ocrTextDetections = <<>>
  /\ currentFrameDetections = <<>>
  /\ currentFrameOcrDetections = <<>>
  /\ devices = {}
  /\ selectedDeviceId = NoDevice
  /\ isStreaming = FALSE
  /\ error = NoError
  /\ cameraStoppedRef = FALSE
  /\ streamRef = Null
  /\ video = [FreshVideo EXCEPT !.listeners = TRUE]
  /\ streams = <<NewCall("perm", NoDevice)>>
  /\ autoStream = Null
  /\ camTimers = {}
  /\ rendered = [isStreaming |-> FALSE, isConnected |-> conn,
                 error |-> NoError, selectedDeviceId |-> NoDevice,
                 requestInterval |-> DEFAULT_REQUEST_INTERVAL,
                 flipImage |-> FALSE]
  /\ flipImage = FALSE
  /\ frameFlip = FALSE
  /\ sourceFlip = FALSE
  /\ display = [width |-> 640, height |-> 360]
  /\ overlay = BlankCanvas
  /\ drawBoxes = [dets |-> <<>>, ocr |-> <<>>, flipImage |-> FALSE]
  /\ requestInterval = DEFAULT_REQUEST_INTERVAL
  /\ intervals = [p \in RequestIntervals |-> 0]
  /\ mounted = TRUE
  /\ inFlight = 0
  /\ framesSent = 0
  /\ opens = n
  /\ noise = 0
  /\ abnormalCloses = 0
  /\ tickDropped = FALSE
  /\ inserted = [logs |-> logs, dets |-> <<>>, ocr |-> <<>>,
                 order |-> Arrivals("log", Len(logs))]

\* After construction: the first connection attempt is under way.
Init == Mounted(NewSocket, FALSE, <<>>, 0)

\* The same, once the first attempt has succeeded and the commit of
\* isConnected has been rendered.
InitConnected ==
  Mounted([NewSocket EXCEPT !.readyState = "OPEN"], TRUE, <<LogConnected>>, 1)

Next ==
  \/ \E s \in DOMAIN sockets : opens < MaxOpens /\ OnOpen(s)
  \/ \E s \in DOMAIN sockets : \E code \in {1000, 1001, 1006} : OnClose(s, code)
  \/ \E t \in timers : ReconnectTimer(t)
  \/ \E s \in DOMAIN sockets : \E m \in ReplyMsgs : ServerReply(s, m)
  \/ \E s \in DOMAIN sockets : \E m \in NoiseMsgs : ServerNoise(s, m)
  \/ \E s \in DOMAIN sockets : OnMessage(s)
  \/ Tick
  \/ Render
  \/ Unmount
  \/ HandleStopCamera
  \/ StartCamera
  \/ \E d \in DeviceIds : HandleDeviceChange(d)
  \/ \E i \in DOMAIN streams : GetDevicesResolved(i)
  \/ \E i \in DOMAIN streams : StartCameraResolved(i)
  \/ \E i \in DOMAIN streams : StartCameraAutoResolved(i)
  \/ \E i \in DOMAIN streams : GetUserMediaRejected(i)
  \/ \E i \in DOMAIN streams : TrackEnded(i)
  \/ \E i \in DOMAIN streams : TrackError(i)
  \/ VideoLoaded
  \/ VideoError
  \/ VideoEnded
  \/ \E t \in camTimers : CameraTimer(t)
  \/ \E p \in RequestIntervals : SetRequestInterval(p)
  \/ RenderTerminal
  \/ ClockTick
  \/ DrawEffect
  \/ \E rect \in Displays : Resize(rect)
  \/ HandleFlipToggle

Spec == Init /\ [][Next]_vars

\* The camera coming up as the channel sees it: enumeration, auto-start, the
\* stream loading.
CameraSession ==
  \/ \E i \in DOMAIN streams : GetDevicesResolved(i)
  \/ \E i \in DOMAIN streams : StartCameraAutoResolved(i)
  \/ VideoLoaded

\* The detection channel and the frame scheduler with the endpoint up: every
\* connection attempt that is not abandoned succeeds, and an established
\* connection may be closed by either side or drop.
NextChannel ==
  \/ \E s \in DOMAIN sockets : opens < MaxOpens /\ OnOpen(s)
  \/ \E s \in DOMAIN sockets : \E code \in {1000, 1006} :
        sockets[s].readyState # "CONNECTING" /\ OnClose(s, code)
  \/ \E t \in timers : ReconnectTimer(t)
  \/ \E s \in DOMAIN sockets : \E m \in ReplyMsgs : ServerReply(s, m)
  \/ \E s \in DOMAIN sockets : OnMessage(s)
  \/ Tick
  \/ Render
  \/ Unmount
  \/ CameraSession
  \/ HandleStopCamera

SpecChannel == Init /\ [][NextChannel]_vars

\* The detection channel with the endpoint down, while the component stays
\* mounted: every connection attempt fails.
NextReconnect ==
  \/ \E s \in DOMAIN sockets : OnClose(s, 1006)
  \/ \E t \in timers : ReconnectTimer(t)
  \/ Tick
  \/ Render
  \/ CameraSession

SpecReconnect == Init /\ [][NextReconnect]_vars

\* The detection channel with an endpoint that comes and goes: an attempt may
\* fail or succeed, an established connection may close or drop; frames are
\* not answered.
NextFlaky ==
  \/ \E s \in DOMAIN sockets : opens < MaxFlakyOpens /\ OnOpen(s)
  \/ \E s \in DOMAIN sockets : \E code \in {1000, 1001, 1006} : OnClose(s, code)
  \/ \E t \in timers : ReconnectTimer(t)
  \/ Render
  \/ Unmount

SpecFlaky == Init /\ [][NextFlaky]_vars

\* The camera session, with a detection channel that has connected and stays
\* open.
NextCamera ==
  \/ Render
  \/ Unmount
  \/ HandleStopCamera
  \/ StartCamera
  \/ \E d \in DeviceIds : HandleDeviceChange(d)
  \/ \E i \in DOMAIN streams : GetDevicesResolved(i)
  \/ \E i \in DOMAIN streams : StartCameraResolved(i)
  \/ \E i \in DOMAIN streams : StartCameraAutoResolved(i)
  \/ \E i \in DOMAIN streams : GetUserMediaRejected(i)
  \/ \E i \in DOMAIN streams : TrackEnded(i)
  \/ \E i \in DOMAIN streams : TrackError(i)
  \/ VideoLoaded
  \/ VideoError
  \/ VideoEnded
  \/ \E t \in camTimers : CameraTimer(t)

SpecCamera == InitConnected /\ [][NextCamera]_vars


(* =========================== properties ============================== *)

Closed    == {i \in DOMAIN sockets : sockets[i].readyState = "CLOSED"}
Attempting == {i \in DOMAIN sockets : sockets[i].readyState \in {"CONNECTING", "OPEN"}}
FatalLogged == \E i \in DOMAIN backendLogs : backendLogs[i] = LogMaxAttempts

\* C1: at most one frame is outstanding at any time: a frame is never sent
\* while an earlier frame has been answered neither by a result nor by an
\* error message.
C1_SingleFlight == inFlight <= 1

\* The second frame is outstanding, after the first one was answered.
C1_Witness == framesSent = 2 /\ inFlight = 1

\* C2: at most one socket is connecting or open at any time.
C2_OneAttempt == Cardinality(Attempting) <= 1

\* C3: with no open event in between, the Nth abnormal close (N = 1..5) arms
\* exactly the retry whose delay is reconnectDelay * N.
C3_Backoff ==
  [][\A s \in DOMAIN sockets :
       (s \notin Closed /\ s \in Closed'
          /\ abnormalCloses' = abnormalCloses + 1
          /\ abnormalCloses' <= maxReconnectAttempts)
       => timers' = timers \cup {[id |-> s, delay |-> reconnectDelay * abnormalCloses']}
  ]_vars

\* The second failure in a row has armed the 6000 ms retry and the fifth the
\* 15000 ms one.
C3_Witness ==
  /\ opens = 0
  /\ abnormalCloses = 5
  /\ \E t \in timers : t.delay = 15000
  /\ \E i \in DOMAIN backendLogs : backendLogs[i] = LogReconnect(2)


\* C4: every open event resets the attempt counter to 0, whatever it was, so
\* the first abnormal close after an open event arms the retry with delay
\* reconnectDelay * 1.
C4_ResetOnOpen ==
  [][/\ \A s \in DOMAIN sockets :
          (sockets[s].readyState = "CONNECTING" /\ sockets'[s].readyState = "OPEN")
          => reconnectAttemptsRef' = 0
     /\ \A s \in DOMAIN sockets :
          (s \notin Closed /\ s \in Closed' /\ opens > 0
             /\ abnormalCloses = 0 /\ abnormalCloses' = 1)
          => timers' = timers \cup {[id |-> s, delay |-> reconnectDelay]}
  ]_vars

\* Two failures, then an open event, then a drop whose retry is announced as
\* attempt 1 and is pending with the base delay.
C4_Witness ==
  /\ \E i, j, k \in DOMAIN backendLogs :
        /\ i < j /\ j < k
        /\ backendLogs[i] = LogReconnect(2)
        /\ backendLogs[j] = LogConnected
        /\ backendLogs[k] = LogReconnect(1)
  /\ \E t \in timers : t.delay = reconnectDelay

\* C5: once the fatal entry of the give-up has been appended, no connection
\* attempt is started any more, by a timer, a tick or a re-armed interval.
C5_GiveUp == [][FatalLogged => Len(sockets') = Len(sockets)]_vars

\* Every failing attempt reports its failure, and every armed reconnect
\* timeout expires.
FairReconnect ==
  /\ SpecReconnect
  /\ WF_vars(\E s \in DOMAIN sockets : OnClose(s, 1006))
  /\ WF_vars(\E t \in timers : ReconnectTimer(t))

\* C6: when every connection attempt fails, the fatal entry is eventually
\* appended to the logs.
C6_NeverSilent == <>FatalLogged

\* Retrying has stopped, with the fatal entry in the logs.
C6_Witness == FatalLogged /\ Live = {} /\ timers = {} /\ opens = 0

\* C7: a close event with code 1000 arms no retry and leaves the attempt
\* counter alone; a close event with another code, the counter being below
\* the cap, increments the counter by one and arms exactly one retry.
C7_CloseCode ==
  [][\A s \in DOMAIN sockets :
       (s \notin Closed /\ s \in Closed') =>
         /\ abnormalCloses' = abnormalCloses
              => (timers' = timers /\ reconnectAttemptsRef' = reconnectAttemptsRef)
         /\ (abnormalCloses' # abnormalCloses
               /\ reconnectAttemptsRef < maxReconnectAttempts)
              => /\ reconnectAttemptsRef' = reconnectAttemptsRef + 1
                 /\ timers \subseteq timers'
                 /\ Cardinality(timers' \ timers) = 1
  ]_vars

\* An established connection was closed with code 1000 and nothing is pending,
\* after an earlier abnormal close had armed a retry.
C7_Witness ==
  /\ mounted /\ opens >= 1 /\ abnormalCloses = 0
  /\ Live = {} /\ timers = {} /\ reconnectAttemptsRef = 0
  /\ \E i \in DOMAIN backendLogs : backendLogs[i] = LogReconnect(1)

\* C8: after disconnectWebSocket() no connection attempt is started.
C8_NoAttemptAfterDisconnect == [][~mounted => Len(sockets') = Len(sockets)]_vars

\* C9: from stopCamera() to the next startCamera() the stopped flag stays set
\* and no stream is stored or attached to the video element.
C9_StoppedStaysStopped ==
  [][(cameraStoppedRef /\ ~StartCamera)
       => (cameraStoppedRef' /\ streamRef' = Null /\ video'.srcObject = Null)]_vars

\* C10: handleStopCamera leaves no socket connecting or open and no reconnect
\* timeout pending.
C10_StopClosesChannel ==
  [][HandleStopCamera => (Attempting' = {} /\ timers' = {})]_vars


\* The streams that startCamera and the auto-start effect have obtained and
\* whose tracks have not been stopped.
LiveStarts == {i \in DOMAIN streams : streams[i].st = "live" /\ streams[i].kind # "perm"}

\* C11: at most one stream obtained by a start has live tracks at any moment
\* (the permission stream of getDevices, which is never stopped, is left out
\* of the count).
C11_OneLiveStream == Cardinality(LiveStarts) <= 1


\* The camera session left to itself: the user neither starts nor stops the
\* camera; streams resolve, load, end and fail, recovery timeouts expire and
\* React commits.
NextRecovery ==
  \/ Render
  \/ \E i \in DOMAIN streams : GetDevicesResolved(i)
  \/ \E i \in DOMAIN streams : StartCameraAutoResolved(i)
  \/ \E i \in DOMAIN streams : GetUserMediaRejected(i)
  \/ \E i \in DOMAIN streams : TrackEnded(i)
  \/ \E i \in DOMAIN streams : TrackError(i)
  \/ VideoLoaded
  \/ VideoError
  \/ VideoEnded
  \/ \E t \in camTimers : CameraTimer(t)

\* Every armed recovery timeout expires and every scheduled commit happens.
FairRecovery ==
  /\ InitConnected
  /\ [][NextRecovery]_vars
  /\ WF_vars(\E t \in camTimers : CameraTimer(t))
  /\ WF_vars(Render)

\* A held track has ended or failed by itself and the user has not stopped the
\* camera.
TrackFailed == error \in {ErrTrackEnded, ErrTrackError} /\ ~cameraStoppedRef

\* A getUserMedia call of a start is under way.
Acquiring == \E i \in DOMAIN streams : streams[i].st = "pending" /\ streams[i].kind # "perm"

\* C12: after a track ended or failed by itself, the camera not being stopped,
\* a new acquisition is eventually attempted.
C12_AutoRecovery == [](TrackFailed => <>Acquiring)


\* C13: when stopCamera() returns, the stream of streamRef and the stream
\* attached to the video element have been stopped, both references are
\* cleared and isStreaming is false.
C13_StopReleases ==
  [][HandleStopCamera =>
       /\ streamRef # Null => streams'[streamRef].st # "live"
       /\ video.srcObject # Null => streams'[video.srcObject].st # "live"
       /\ streamRef' = Null
       /\ video'.srcObject = Null
       /\ isStreaming' = FALSE
  ]_vars


\* What a stop leaves behind: the stopped flag set, no stream held or attached,
\* no capture interval armed, the histories and current-frame slots empty.
JustStopped ==
  /\ cameraStoppedRef /\ streamRef = Null /\ video.srcObject = Null
  /\ detectionIntervalRef = Null
  /\ backendLogs = <<>> /\ detections = <<>> /\ ocrTextDetections = <<>>
  /\ currentFrameDetections = <<>> /\ currentFrameOcrDetections = <<>>

\* C14: stop is idempotent: every stop ends in a state that a further stop
\* leaves exactly as it is.
C14_StopIdempotent ==
  [][HandleStopCamera => (JustStopped' /\ (JustStopped => UNCHANGED vars))]_vars

\* A stop has acted on a session with a connected channel, and the Stop button
\* is still there for a second one.
C14_Witness == JustStopped /\ mounted /\ rendered.isStreaming /\ opens >= 1


\* C15: a tick that finds the socket missing or not OPEN transmits nothing,
\* marks nothing as being processed and hands no frame to any socket; a socket
\* that opens starts with no frame captured before, and opening sends none.
C15_DropNotBuffered ==
  [][/\ (Tick /\ (wsRef = Null \/ sockets[wsRef].readyState # "OPEN")) =>
          /\ framesSent' = framesSent
          /\ isProcessingRef' = isProcessingRef
          /\ (CanCapture /\ VideoReady) => ~isProcessingRef'
          /\ \A s \in DOMAIN sockets' :
                sockets'[s].frames = IF s \in DOMAIN sockets THEN sockets[s].frames ELSE 0
     /\ \A s \in DOMAIN sockets :
          (sockets[s].readyState = "CONNECTING" /\ sockets'[s].readyState = "OPEN")
          => (sockets'[s].frames = 0 /\ framesSent' = framesSent)
  ]_vars

\* A tick was dropped, and a frame was sent on a socket that never closed.
C15_Witness == tickDropped /\ framesSent >= 1 /\ inFlight = 1 /\ Closed = {}


\* A tick that sends a frame.
TickSends == Tick /\ framesSent' = framesSent + 1 /\ inFlight' = inFlight + 1

\* C16: never two frames in flight, and with the interval armed, the channel
\* open, the video ready and every frame sent so far answered, what the next
\* tick does is send a frame (so ticks 500 ms apart, each answered after
\* 300 ms, send one frame each).
C16_TickSends ==
  /\ inFlight \in {0, 1}
  /\ (detectionIntervalRef # Null /\ wsRef # Null /\ VideoReady
        /\ inFlight = 0 /\ framesSent < MaxFrames)
     => (sockets[wsRef].readyState = "OPEN" => ENABLED TickSends)

\* Three frames have been sent, each answered before the next tick.
C16_Witness == framesSent = 3 /\ inFlight = 0 /\ ~isProcessingRef /\ Closed = {}


\* The inbound side of the channel while the connection holds and the
\* component stays mounted: results small and large, service errors, and
\* messages that answer no frame.
NextInbound ==
  \/ \E s \in DOMAIN sockets :
        \E m \in ReplyMsgs \cup PartialMsgs \cup {BulkMsg} : ServerReply(s, m)
  \/ \E s \in DOMAIN sockets : \E m \in NoiseMsgs : ServerNoise(s, m)
  \/ \E s \in DOMAIN sockets : OnMessage(s)
  \/ Tick
  \/ Render
  \/ CameraSession
  \/ HandleStopCamera

SpecInbound == InitConnected /\ [][NextInbound]_vars

\* The last cap entries of all, oldest first.
Recent(all, cap) ==
  LET k == IF Len(all) < cap THEN Len(all) ELSE cap
  IN [i \in 1..k |-> all[Len(all) - k + i]]

\* C17: each history holds at most its cap (50 detections, 50 OCR detections,
\* 100 log entries), and holds exactly the most recent entries put into it
\* since it was last cleared, in the order they were put in.
C17_BoundedHistory ==
  /\ Len(detections) <= MAX_DETECTIONS
  /\ Len(ocrTextDetections) <= MAX_OCR_DETECTIONS
  /\ Len(backendLogs) <= MAX_LOGS
  /\ detections = Recent(inserted.dets, MAX_DETECTIONS)
  /\ ocrTextDetections = Recent(inserted.ocr, MAX_OCR_DETECTIONS)
  /\ backendLogs = Recent(inserted.logs, MAX_LOGS)

\* Sixty entries put into the empty detection history leave the last fifty.
C17_Witness ==
  /\ Len(inserted.dets) = 60
  /\ Len(detections) = MAX_DETECTIONS
  /\ detections[1].id = 11
  /\ detections[MAX_DETECTIONS].id = 60



\* The message event of socket s delivers a message of one of the types.
Delivers(s, types) ==
  /\ OnMessage(s)
  /\ Head(sockets[s].inbox).type \in types

\* C18: a service error message appends exactly one entry to the log history
\* (the oldest entry making room when the history is full), clears the
\* processing flag, and leaves the socket open, isConnected, the attempt
\* counter, the detection histories and the current-frame slots as they were.
C18_ServiceError ==
  [][\A s \in DOMAIN sockets : Delivers(s, {"error"}) =>
       /\ backendLogs' = (IF Len(backendLogs) < MAX_LOGS
                          THEN backendLogs ELSE Tail(backendLogs))
                         \o <<LogServiceError>>
       /\ ~isProcessingRef'
       /\ sockets'[s].readyState = "OPEN"
       /\ wsRef' = wsRef
       /\ isConnected' = isConnected
       /\ UNCHANGED <<reconnectAttemptsRef, detections, ocrTextDetections,
                      currentFrameDetections, currentFrameOcrDetections>>]_vars

\* A service error has just been handled after a result with detections: its
\* entry is the newest of a full log, the detections are still there, the
\* connection is up and no frame is being processed.
C18_Witness ==
  /\ Len(backendLogs) = MAX_LOGS
  /\ backendLogs[MAX_LOGS] = LogServiceError
  /\ currentFrameDetections # <<>>
  /\ Len(detections) = MAX_DETECTIONS
  /\ isConnected
  /\ ~isProcessingRef
  /\ inFlight = 0


\* C19: a message that is not valid JSON, or whose tag is unknown, pong or
\* connected, is discarded by itself: the socket stays open, and isConnected,
\* the processing flag, the attempt counter, the detection histories and the
\* current-frame slots are unchanged.
C19_Discarded ==
  [][\A s \in DOMAIN sockets :
       Delivers(s, {"malformed", "unknown", "pong", "connected"}) =>
         /\ sockets'[s].readyState = "OPEN"
         /\ wsRef' = wsRef
         /\ UNCHANGED <<isConnected, isProcessingRef, reconnectAttemptsRef,
                        detections, ocrTextDetections, currentFrameDetections,
                        currentFrameOcrDetections>>]_vars

\* Such a message has been handled while a frame was awaiting its answer and
\* the histories held detections: the frame is still awaited.
C19_Witness ==
  /\ noise >= 1
  /\ wsRef # Null
  /\ sockets[wsRef].readyState = "OPEN"
  /\ sockets[wsRef].inbox = <<>>
  /\ sockets[wsRef].frames = 1
  /\ isConnected
  /\ isProcessingRef
  /\ inFlight = 1
  /\ detections # <<>>
  /\ currentFrameDetections # <<>>


HistoriesEmpty ==
  /\ backendLogs = <<>>
  /\ detections = <<>>
  /\ ocrTextDetections = <<>>
  /\ currentFrameDetections = <<>>
  /\ currentFrameOcrDetections = <<>>

\* C20: immediately after handleStopCamera the log history, the detection
\* history, the text-detection history and both current-frame slots are empty.
C20_ClearedOnStop == [][HandleStopCamera => HistoriesEmpty']_vars

\* The user has stopped the camera after frames were answered: the log, which
\* held at least the connection entry, is empty, as is everything else.
C20_Witness ==
  /\ HistoriesEmpty
  /\ cameraStoppedRef
  /\ detectionIntervalRef = Null
  /\ framesSent >= 2
  /\ inFlight = 0


\* The pipeline while the capture interval is being changed: the camera comes
\* up, the connection opens, drops and is retried, frames are sent.
NextInterval ==
  \/ \E s \in DOMAIN sockets : opens < MaxOpens /\ OnOpen(s)
  \/ \E s \in DOMAIN sockets :
        sockets[s].readyState # "CONNECTING" /\ OnClose(s, 1006)
  \/ \E t \in timers : ReconnectTimer(t)
  \/ Tick
  \/ Render
  \/ CameraSession
  \/ \E p \in RequestIntervals : SetRequestInterval(p)

SpecInterval == Init /\ [][NextInterval]_vars

\* The commit of a change of the capture interval, and of nothing else the
\* interval effect depends on, while the pipeline is running.
IntervalCommit ==
  /\ Render
  /\ requestInterval # rendered.requestInterval
  /\ isStreaming /\ rendered.isStreaming
  /\ isConnected = rendered.isConnected
  /\ detectionIntervalRef # Null

\* Exactly one interval is live and it has the period p.
OneInterval(ivs, p) == ivs = [q \in RequestIntervals |-> IF q = p THEN 1 ELSE 0]

\* C21: changing the capture interval while running clears the old timer and
\* arms exactly one timer with the new period, without stopping or
\* re-acquiring the camera track and without closing or re-opening the
\* detection socket.
C21_IntervalChange ==
  [][IntervalCommit =>
       /\ OneInterval(intervals', requestInterval)
       /\ detectionIntervalRef' = requestInterval
       /\ UNCHANGED <<streams, streamRef>>
       /\ UNCHANGED <<sockets, wsRef>>]_vars


\* The terminal beside the running pipeline: frames are answered with results
\* and errors, the connection may drop, time passes, the terminal re-renders.
NextTimeline ==
  \/ \E s \in DOMAIN sockets :
        sockets[s].readyState # "CONNECTING" /\ OnClose(s, 1006)
  \/ \E s \in DOMAIN sockets : \E m \in ReplyMsgs : ServerReply(s, m)
  \/ \E s \in DOMAIN sockets : OnMessage(s)
  \/ Tick
  \/ Render
  \/ CameraSession
  \/ RenderTerminal
  \/ ClockTick

SpecTimeline == InitConnected /\ [][NextTimeline]_vars

\* The history an event of the given type comes from.
HistoryOf(type) ==
  CASE type = "log" -> backendLogs
    [] type = "yolo" -> detections
    [] type = "ocr" -> ocrTextDetections

\* The events of a list that stand for entry i of the history of a type.
Standing(events, type, i) ==
  {k \in DOMAIN events : /\ events[k].type = type
                          /\ events[k].index = i
                          /\ events[k].data = HistoryOf(type)[i]}

\* C22: the unified event list contains every log, detection and OCR entry
\* exactly once, nothing else (its length is the sum of the three lengths),
\* and is non-decreasing in timestamp.
C22_TimelineOrdered ==
  [][RenderTerminal =>
       /\ Len(unifiedEvents') = Len(backendLogs) + Len(detections)
                                  + Len(ocrTextDetections)
       /\ \A type \in {"log", "yolo", "ocr"} :
            \A i \in DOMAIN HistoryOf(type) :
              Cardinality(Standing(unifiedEvents', type, i)) = 1
       /\ \A k \in 1..(Len(unifiedEvents') - 1) :
            unifiedEvents'[k].timestamp <= unifiedEvents'[k + 1].timestamp]_vars

\* The list holds entries of all three histories with different timestamps,
\* and a detection stands before a log entry: sorting has moved events.
C22_Witness ==
  /\ unifiedEvents = UnifiedEvents(backendLogs, detections, ocrTextDetections)
  /\ {unifiedEvents[k].type : k \in DOMAIN unifiedEvents} = {"log", "yolo", "ocr"}
  /\ \E j, k \in DOMAIN unifiedEvents :
       /\ j < k
       /\ unifiedEvents[j].type = "yolo"
       /\ unifiedEvents[k].type = "log"
       /\ unifiedEvents[j].timestamp < unifiedEvents[k].timestamp


\* Everything that arrived for the history of a type since the last clear.
ArrivedFor(type) ==
  CASE type = "log" -> inserted.logs
    [] type = "yolo" -> inserted.dets
    [] type = "ocr" -> inserted.ocr

\* The place in the order of arrival of the entry an event stands for: it is
\* the j-th arrival of its type, j counting the entries the cap has dropped.
ArrivalPos(e) ==
  LET j == e.index + Len(ArrivedFor(e.type)) - Len(HistoryOf(e.type))
  IN CHOOSE p \in DOMAIN inserted.order :
       /\ inserted.order[p] = e.type
       /\ Cardinality({q \in 1..p : inserted.order[q] = e.type}) = j

\* C23: two entries of the unified event list with equal timestamps appear in
\* the order in which they arrived, also when they belong to different
\* histories.
C23_TiesByArrival ==
  [][RenderTerminal =>
       \A j, k \in DOMAIN unifiedEvents' :
         (j < k /\ unifiedEvents'[j].timestamp = unifiedEvents'[k].timestamp)
           => ArrivalPos(unifiedEvents'[j]) < ArrivalPos(unifiedEvents'[k])]_vars


\* The overlay beside the running pipeline: results arrive, the window is
\* resized, the flip setting is toggled, commits run the drawing effect.
NextOverlay ==
  \/ \E s \in DOMAIN sockets : \E m \in ResultMsgs : ServerReply(s, m)
  \/ \E s \in DOMAIN sockets : OnMessage(s)
  \/ Tick
  \/ Render
  \/ CameraSession
  \/ DrawEffect
  \/ \E rect \in Displays : Resize(rect)
  \/ HandleFlipToggle

SpecOverlay == InitConnected /\ [][NextOverlay]_vars

\* Every commit has run: the registered drawBoxes closes over the latest
\* inputs, and the video has dimensions.
OverlaySettled ==
  /\ mounted /\ video.present /\ video.ready
  /\ rendered = Current
  /\ drawBoxes = DrawInputs

\* C24: after any interleaving of result arrivals and resize events the
\* overlay shows the render of the latest current-frame detections under the
\* current display size and flip setting (a redraw by a resize and one by
\* new data being the same function of these).
C24_OverlayLatest ==
  OverlaySettled =>
    LET latest == DrawBoxes(DrawInputs, display, BlankCanvas)
    IN /\ overlay.items = latest.items
       /\ overlay.items # <<>> =>
            (overlay.width = latest.width /\ overlay.height = latest.height)

\* Boxes drawn at one size have been redrawn by a resize, after an earlier
\* result was replaced by a later one.
C24_Witness ==
  /\ OverlaySettled
  /\ overlay.items # <<>>
  /\ overlay.width = 1280
  /\ framesSent >= 2 /\ inFlight = 0
  /\ flipImage


\* The edges of the rectangle strokeRect(x, y, width, height) strokes; a
\* negative width or height extends it to the left or upwards.
RectLeft(item)   == IF item.width >= 0 THEN item.x ELSE item.x + item.width
RectRight(item)  == IF item.width >= 0 THEN item.x + item.width ELSE item.x
RectTop(item)    == IF item.height >= 0 THEN item.y ELSE item.y + item.height
RectBottom(item) == IF item.height >= 0 THEN item.y + item.height ELSE item.y

\* The scenario's inputs: the box (x1=100, x2=200, y1=50, y2=150) of a
\* 1280x720 source, a 640x360 display, flip off, drawn.
Scenario640 ==
  /\ OverlaySettled
  /\ display = [width |-> 640, height |-> 360]
  /\ ~flipImage
  /\ Len(currentFrameDetections) = 1
  /\ currentFrameDetections[1].bbox = [x1 |-> 100, x2 |-> 200, y1 |-> 50, y2 |-> 150]

\* C25: the box (100, 200, 50, 150) of a 1280x720 source on a 640x360 display
\* with flip off is rendered from x = 540 to x = 590 and from y = 25 to y = 75.
C25_Scenario ==
  Scenario640 =>
    /\ Len(overlay.items) >= 1
    /\ overlay.items[1].kind = "yolo"
    /\ RectLeft(overlay.items[1]) = 540
    /\ RectRight(overlay.items[1]) = 590
    /\ RectTop(overlay.items[1]) = 25
    /\ RectBottom(overlay.items[1]) = 75

\* The scenario has been drawn: the box and the text polygon of one result.
C25_Witness ==
  /\ Scenario640
  /\ overlay.width = 640
  /\ Len(overlay.items) = 2
  /\ framesSent >= 1 /\ inFlight = 0


\* The smallest x and the smallest y a drawn shape reaches.
ShapeLeft(item) ==
  IF item.kind = "yolo" THEN RectLeft(item)
  ELSE MinOf({item.polygon[i][1] : i \in DOMAIN item.polygon})
ShapeTop(item) ==
  IF item.kind = "yolo" THEN RectTop(item)
  ELSE MinOf({item.polygon[i][2] : i \in DOMAIN item.polygon})

\* C26: every label is anchored at the top-left corner of its rendered box or
\* polygon: its x is the smallest rendered x of the shape, its y the top edge
\* minus the label height, clamped so that it is never negative; for both
\* flip settings.
C26_LabelAnchor ==
  \A i \in DOMAIN overlay.items :
    LET item == overlay.items[i]
    IN /\ item.labelX = ShapeLeft(item)
       /\ item.labelY = Max(0, ShapeTop(item) - LabelHeight)
       /\ item.labelY >= 0


\* scaleAndFlipX with flipImage = false applied twice with the same scale and
\* display width.
FlipTwice(x, scaleX, videoDisplayWidth) ==
  ScaleAndFlipX(ScaleAndFlipX(x, scaleX, videoDisplayWidth, FALSE),
                scaleX, videoDisplayWidth, FALSE)

\* The x coordinates of the detections of the current frame.
CurrentXs ==
  UNION {{currentFrameDetections[i].bbox.x1, currentFrameDetections[i].bbox.x2} :
           i \in DOMAIN currentFrameDetections}
  \cup UNION {{currentFrameOcrDetections[i].polygon[j][1] :
                  j \in DOMAIN currentFrameOcrDetections[i].polygon} :
                i \in DOMAIN currentFrameOcrDetections}

\* C27: mirror idempotence: the horizontal flip transform (scaleAndFlipX with
\* flipImage = false) applied twice to a coordinate, with the same
\* dimensions, returns the original coordinate (to within one unit of
\* rounding).
C27_MirrorTwice ==
  \A x \in CurrentXs :
    LET scale == CalculateScaleFactors(display.width, display.height,
                                       IDEAL_WIDTH, IDEAL_HEIGHT)
        twice == FlipTwice(x, scale.scaleX, display.width)
    IN twice - x \in -1..1


\* The permission request of getDevices is declined: its getUserMedia
\* rejects.
PermissionDeclined(i) ==
  /\ streams[i].kind = "perm"
  /\ GetUserMediaRejected(i)

\* C28: when the user declines the permission request of the enumeration,
\* the failure is reported to the caller as a session error; the enumeration
\* does not end silently with an empty device list (while the component is
\* mounted).
C28_DeclineReported ==
  [][\A i \in DOMAIN streams :
       (mounted /\ PermissionDeclined(i)) => error' # NoError]_vars


\* The connection fails with a frame outstanding: the close event (with its
\* error event for code 1006) of a socket while the processing flag is set.
FailsMidFrame(s, code) ==
  /\ isProcessingRef
  /\ OnClose(s, code)

\* C29: when the connection errors or closes, normally or abnormally, while a
\* frame is outstanding, the processing flag is false once the log entries of
\* the failure have been appended.
C29_FailureClearsFlag ==
  [][\A s \in DOMAIN sockets : \A code \in {1000, 1006} :
       FailsMidFrame(s, code) => ~isProcessingRef']_vars


\* The entries of a result message as the histories take them: each with the
\* time of arrival.
Arrived(entries) == [i \in DOMAIN entries |-> Stamp(entries[i], now)]

\* C30: when a result message has been handled, the current-frame object
\* slot is exactly the message's object detections and the current-frame text
\* slot exactly its text detections (each empty when the message carries
\* none), each history is what it was followed by exactly those entries,
\* then capped, and the processing flag is false.
C30_ResultHandled ==
  [][\A s \in DOMAIN sockets : Delivers(s, {"result"}) =>
       LET data == Head(sockets[s].inbox).data
       IN /\ currentFrameDetections' = data.yolo
          /\ currentFrameOcrDetections' = data.ocr
          /\ detections' =
               Recent(detections \o Arrived(data.yolo), MAX_DETECTIONS)
          /\ ocrTextDetections' =
               Recent(ocrTextDetections \o Arrived(data.ocr),
                      MAX_OCR_DETECTIONS)
          /\ backendLogs' =
               Recent(backendLogs
                        \o [i \in DOMAIN data.logs |->
                              [text |-> data.logs[i], n |-> 0,
                               timestamp |-> now]],
                      MAX_LOGS)
          /\ ~isProcessingRef']_vars

\* A result with an object detection and no text has just been handled after
\* one that carried text: the text slot is empty while the text history
\* still holds the earlier entry, and no frame is being processed.
C30_Witness ==
  /\ currentFrameDetections = <<YoloDet>>
  /\ currentFrameOcrDetections = <<>>
  /\ Len(detections) = 2
  /\ Len(ocrTextDetections) = 1
  /\ ~isProcessingRef
  /\ inFlight = 0


\* The rule for a rendered x: x * displayWidth / nativeWidth, reflected in the
\* display width when flipHorizontal is false; and for a rendered y:
\* y * displayHeight / nativeHeight.
RuleX(x, flipHorizontal) ==
  IF flipHorizontal THEN (x * display.width) \div IDEAL_WIDTH
  ELSE display.width - (x * display.width) \div IDEAL_WIDTH
RuleY(y) == (y * display.height) \div IDEAL_HEIGHT

\* C31: every object box and every vertex of a text polygon is rendered at
\* x = displayWidth - x*scaleX when flipHorizontal is false and x*scaleX when
\* it is true, and at y = y*scaleY in both cases, with scaleX =
\* displayWidth/nativeWidth and scaleY = displayHeight/nativeHeight.
C31_TransformRule ==
  OverlaySettled =>
    /\ Len(overlay.items) =
         Len(currentFrameDetections) + Len(currentFrameOcrDetections)
    /\ \A i \in DOMAIN currentFrameDetections :
         LET bbox == currentFrameDetections[i].bbox
             item == overlay.items[i]
         IN /\ item.kind = "yolo"
            /\ item.x = RuleX(bbox.x1, flipImage)
            /\ item.x + item.width = RuleX(bbox.x2, flipImage)
            /\ item.y = RuleY(bbox.y1)
            /\ item.y + item.height = RuleY(bbox.y2)
    /\ \A i \in DOMAIN currentFrameOcrDetections :
         LET polygon == currentFrameOcrDetections[i].polygon
             item == overlay.items[Len(currentFrameDetections) + i]
         IN /\ item.kind = "ocr"
            /\ DOMAIN item.polygon = DOMAIN polygon
            /\ \A j \in DOMAIN polygon :
                 item.polygon[j] = <<RuleX(polygon[j][1], flipImage),
                                     RuleY(polygon[j][2])>>

\* A box and a polygon have been drawn with flipHorizontal true on a display
\* whose two scale factors differ (3/4 and 1/2).
C31_Witness ==
  /\ OverlaySettled
  /\ flipImage
  /\ display = [width |-> 960, height |-> 360]
  /\ Len(overlay.items) = 2
  /\ overlay.items[1].x = 75 /\ overlay.items[1].y = 25
  /\ overlay.items[2].polygon[1] = <<300, 150>>


\* The sockets that are open.
OpenSockets == {i \in DOMAIN sockets : sockets[i].readyState = "OPEN"}

\* C32: in every reachable state isConnected is true only if wsRef refers to
\* a socket that is OPEN, and every socket that is OPEN is the one wsRef
\* refers to: an event of an older socket never marks the channel connected
\* on behalf of a newer one, nor clears the reference to it.
C32_Bookkeeping ==
  /\ isConnected => (wsRef # Null /\ wsRef \in OpenSockets)
  /\ \A s \in OpenSockets : wsRef = s


\* Where a feature stands in the camera's picture, from where it stands in
\* the encoded frame: captureAndDetect draws the picture mirrored into the
\* canvas (translate(width, 0), scale(-1, 1)) when the frame is flipped.
CameraX(x, flipped) == IF flipped THEN IDEAL_WIDTH - x ELSE x

\* Where the video element shows the camera's x: the element is styled
\* scaleX(-1) unless flipImage, and laid out at the display width.
ScreenX(cameraX, flip) ==
  IF flip THEN (cameraX * display.width) \div IDEAL_WIDTH
  ELSE display.width - (cameraX * display.width) \div IDEAL_WIDTH

\* The x coordinates the overlay draws for the i-th shape, and the x
\* coordinates of the encoded frame they come from.
DrawnXs(i) ==
  LET item == overlay.items[i]
  IN IF item.kind = "yolo" THEN <<item.x, item.x + item.width>>
     ELSE [j \in DOMAIN item.polygon |-> item.polygon[j][1]]
FrameXs(i) ==
  IF i <= Len(currentFrameDetections)
  THEN <<currentFrameDetections[i].bbox.x1, currentFrameDetections[i].bbox.x2>>
  ELSE LET polygon == currentFrameOcrDetections[i - Len(currentFrameDetections)].polygon
       IN [j \in DOMAIN polygon |-> polygon[j][1]]

\* C33: for both values of flipImage, a detection is drawn on the overlay at
\* the x at which the detected feature appears in the displayed video, the
\* frame having been flipped at encode time exactly when flipImage is true
\* and the video being shown mirrored exactly when flipImage is false.
C33_Aligned ==
  (OverlaySettled /\ sourceFlip = flipImage) =>
    \A i \in DOMAIN overlay.items :
      \A j \in DOMAIN DrawnXs(i) :
        DrawnXs(i)[j] = ScreenX(CameraX(FrameXs(i)[j], sourceFlip), flipImage)


\* The inbound side of the channel with an endpoint whose results may lack
\* their data.
NextPayload ==
  \/ \E s \in DOMAIN sockets : \E m \in ReplyMsgs \cup {ResultNoData} :
        ServerReply(s, m)
  \/ \E s \in DOMAIN sockets : OnMessage(s)
  \/ Tick
  \/ Render
  \/ CameraSession
  \/ HandleStopCamera

SpecPayload == InitConnected /\ [][NextPayload]_vars

\* C34: every inbound message tagged result clears the processing flag,
\* whatever its payload, also when its data field is missing: no inbound
\* message leaves the processing flag stuck at true.
C34_ResultClearsFlag ==
  [][\A s \in DOMAIN sockets : Delivers(s, {"result"}) => ~isProcessingRef']_vars


\* C35: whenever getUserMedia resolves inside startCamera, also after a Retry
\* pressed from the error state, the session becomes active: the stream is
\* attached to the video surface, isStreaming becomes true and the error is
\* cleared, so that no live stream is held while the error is still shown.
C35_StartActivates ==
  [][\A i \in DOMAIN streams :
       (mounted /\ StartCameraResolved(i)) =>
         /\ streamRef' = i
         /\ video'.present /\ video'.srcObject = i
         /\ isStreaming'
         /\ error' = NoError]_vars


\* C36: in every reachable state, isStreaming implies that streamRef holds a
\* stream whose tracks are live and that this stream is attached to the video
\* surface; also during a device change, after a track has ended and while
\* an acquisition is pending.
C36_StreamingMeansLive ==
  (mounted /\ isStreaming) =>
    /\ streamRef # Null
    /\ streams[streamRef].st = "live"
    /\ video.present
    /\ video.srcObject = streamRef


\* C37: after a user stop and until the next start, the three histories and
\* both current-frame slots remain empty: neither the result or error message
\* of a frame that was in flight at the stop, nor a channel log event arriving
\* afterwards, puts anything into them.
C37_EmptyWhileStopped ==
  (mounted /\ cameraStoppedRef) => HistoriesEmpty


\* C38: the current-frame detections on the overlay are transformed with the
\* flip setting under which their source frame was encoded, also when
\* flipImage was toggled while the result of that frame was outstanding.
C38_DrawnWithSourceFlip ==
  OverlaySettled =>
    \A i \in DOMAIN overlay.items :
      \A j \in DOMAIN DrawnXs(i) :
        DrawnXs(i)[j] = RuleX(FrameXs(i)[j], sourceFlip)


\* The auto-start call i has been superseded: the cleanup of its effect
\* instance has run (the selected device changed, or the hook unmounted) and
\* its getUserMedia is still pending.
Superseded(i) ==
  /\ streams[i].kind = "auto"
  /\ streams[i].st = "pending"
  /\ ~streams[i].isMounted

CloseEvent == \E s \in DOMAIN sockets : s \notin Closed /\ s \in Closed'

\* C40: the reconnect attempt counter is always within 0..5
\* (maxReconnectAttempts), each close event increments it by at most one, and
\* a retry is scheduled only by a close event that incremented it.
C40_AttemptCounter ==
  [][/\ reconnectAttemptsRef \in 0..maxReconnectAttempts
     /\ reconnectAttemptsRef' \in 0..maxReconnectAttempts
     /\ CloseEvent =>
          reconnectAttemptsRef' \in {reconnectAttemptsRef, reconnectAttemptsRef + 1}
     /\ (timers' \ timers # {}) =>
          (CloseEvent /\ reconnectAttemptsRef' = reconnectAttemptsRef + 1)
  ]_vars

\* The counter stands at the cap and a close event beyond the cap has been
\* handled: it scheduled nothing.
C40_Witness ==
  /\ reconnectAttemptsRef = maxReconnectAttempts
  /\ abnormalCloses > maxReconnectAttempts
  /\ timers = {}
  /\ Live = {}

====
